---- MODULE Spec2Model ----
(***************************************************************************)
(* Model of src/src/subrating.c: the activity-driven tiered BLE subrating  *)
(* controller (tier table with build assertions, set_tier, the dormant     *)
(* delayable work item, the activity listener, the outcome callback).      *)
(***************************************************************************)
EXTENDS Integers, Sequences, FiniteSets, TLC

VARIABLES
    cfg,            \* the CONFIG_ZMK_BLE_SUBRATE_* values of the build
    phase,          \* "build" | "rejected" | "boot" | "run"
    current_tier,   \* static enum subrate_tier current_tier
    work_state,     \* dormant_work: "idle" | "delayed" | "queued"
    timer_left,     \* ticks until the delayed dormant_work expires
    stack_default,  \* parameters last accepted by bt_conn_le_subrate_set_defaults
    conns,          \* the stack's LE connection objects (role, state)
    last,           \* the step that was taken last, with the state before it
    calls,          \* the outbound calls of the last step, in program order
    last_activity,  \* activity value of the last handled activity event
    since_event,    \* ticks since that event while it is an IDLE or SLEEP
                    \* event (saturating at the delay); 0 otherwise
    last_bcast,     \* tier of the last broadcast of set_tier ("none" before any)
    scenario,       \* progress along the run ACTIVE event, IDLE event, timer
    thr,            \* the two handlers in flight when delivery is not serial
    failed          \* links whose request failed since current_tier last changed

vars == <<cfg, phase, current_tier, work_state, timer_left, stack_default,
          conns, last, calls, last_activity, since_event, last_bcast,
          scenario, thr, failed>>

-----------------------------------------------------------------------------
(* Bounds of the model *)

\* number of connection objects of the stack
MaxConns == 2

\* SUBRATE_DORMANT_DELAY_MS, counted in ticks of the model's clock
DormantDelay == 2

-----------------------------------------------------------------------------
(* Tier table and build assertions *)

U16(n) == n % 65536

TIER_ACTIVE == "TIER_ACTIVE"
TIER_IDLE == "TIER_IDLE"
TIER_DORMANT == "TIER_DORMANT"

subrate_tier == {TIER_ACTIVE, TIER_IDLE, TIER_DORMANT}

SubrateProductLimit == 500

MinValues == {1, 3}
MaxValues == {2, 250, 501}
CnValues == {0, 2}
LatencyValues == {0, 1, 2}
TimeoutValues == {3, 750, 3200}

ConfigSpace ==
    [ACTIVE_MIN : MinValues, ACTIVE_MAX : MaxValues, ACTIVE_CN : CnValues,
     IDLE_MIN : MinValues, IDLE_MAX : MaxValues, IDLE_CN : CnValues,
     IDLE_MAX_LATENCY : LatencyValues,
     DORMANT_MIN : MinValues, DORMANT_MAX : MaxValues, DORMANT_CN : CnValues,
     DORMANT_MAX_LATENCY : LatencyValues,
     TIMEOUT : TimeoutValues]

BuildAssertsActive(c) ==
    /\ c.ACTIVE_MAX >= c.ACTIVE_MIN
    /\ c.ACTIVE_MAX <= SubrateProductLimit
    /\ c.ACTIVE_CN < c.ACTIVE_MAX
    /\ c.TIMEOUT * 2 > 3 * c.ACTIVE_MAX

BuildAssertsIdle(c) ==
    /\ c.IDLE_MAX >= c.IDLE_MIN
    /\ c.IDLE_MAX * (c.IDLE_MAX_LATENCY + 1) <= SubrateProductLimit
    /\ c.IDLE_CN < c.IDLE_MAX
    /\ c.TIMEOUT * 2 > 3 * c.IDLE_MAX * (c.IDLE_MAX_LATENCY + 1)

\* variant: the dormant tier checked without its latency factor
BuildAssertsDormantNoLatency(c) ==
    /\ c.DORMANT_MAX >= c.DORMANT_MIN
    /\ c.DORMANT_MAX <= SubrateProductLimit
    /\ c.DORMANT_CN < c.DORMANT_MAX
    /\ c.TIMEOUT * 2 > 3 * c.DORMANT_MAX

BuildAssertsDormant(c) ==
    /\ c.DORMANT_MAX >= c.DORMANT_MIN
    /\ c.DORMANT_MAX * (c.DORMANT_MAX_LATENCY + 1) <= SubrateProductLimit
    /\ c.DORMANT_CN < c.DORMANT_MAX
    /\ c.TIMEOUT * 2 > 3 * c.DORMANT_MAX * (c.DORMANT_MAX_LATENCY + 1)

BuildAsserts(c) ==
    /\ BuildAssertsActive(c)
    /\ BuildAssertsIdle(c)
    /\ BuildAssertsDormant(c)

active_params(c) ==
    [subrate_min |-> U16(c.ACTIVE_MIN),
     subrate_max |-> U16(c.ACTIVE_MAX),
     max_latency |-> 0,
     continuation_number |-> U16(c.ACTIVE_CN),
     supervision_timeout |-> U16(c.TIMEOUT)]

idle_params(c) ==
    [subrate_min |-> U16(c.IDLE_MIN),
     subrate_max |-> U16(c.IDLE_MAX),
     max_latency |-> U16(c.IDLE_MAX_LATENCY),
     continuation_number |-> U16(c.IDLE_CN),
     supervision_timeout |-> U16(c.TIMEOUT)]

dormant_params(c) ==
    [subrate_min |-> U16(c.DORMANT_MIN),
     subrate_max |-> U16(c.DORMANT_MAX),
     max_latency |-> U16(c.DORMANT_MAX_LATENCY),
     continuation_number |-> U16(c.DORMANT_CN),
     supervision_timeout |-> U16(c.TIMEOUT)]

\* the switch of set_tier: the parameter set of a tier
TierParams(c, tier) ==
    CASE tier = TIER_ACTIVE -> active_params(c)
      [] tier = TIER_IDLE -> idle_params(c)
      [] tier = TIER_DORMANT -> dormant_params(c)

\* the stack's defaults before this module installs any
NoParams ==
    [subrate_min |-> 0, subrate_max |-> 0, max_latency |-> 0,
     continuation_number |-> 0, supervision_timeout |-> 0]

\* the configuration of the running image
RunCfg ==
    [ACTIVE_MIN |-> 1, ACTIVE_MAX |-> 2, ACTIVE_CN |-> 0,
     IDLE_MIN |-> 1, IDLE_MAX |-> 250, IDLE_CN |-> 2, IDLE_MAX_LATENCY |-> 0,
     DORMANT_MIN |-> 3, DORMANT_MAX |-> 250, DORMANT_CN |-> 2,
     DORMANT_MAX_LATENCY |-> 1,
     TIMEOUT |-> 3200]

-----------------------------------------------------------------------------
(* Values exchanged with the stack, the kernel and the event manager *)

ConnIds == 1 .. MaxConns

BT_CONN_ROLE_CENTRAL == "central"
BT_CONN_ROLE_PERIPHERAL == "peripheral"
BT_CONN_STATE_CONNECTED == "connected"

ConnRoles == {BT_CONN_ROLE_CENTRAL, BT_CONN_ROLE_PERIPHERAL}

\* "disconnected" stands for every state other than BT_CONN_STATE_CONNECTED
\* (the code tests equality with BT_CONN_STATE_CONNECTED only)
ConnStates == {"disconnected", BT_CONN_STATE_CONNECTED}

\* an unused connection object: bt_conn_foreach does not visit it
FreeConn == [role |-> "none", state |-> "free"]

ConnValues == {FreeConn} \cup [role : ConnRoles, state : ConnStates]

\* results of bt_conn_le_subrate_request
RequestErrs == {"0", "-EALREADY", "-EIO"}

\* results of bt_conn_le_subrate_set_defaults
DefaultsErrs == {"0", "-EIO"}

\* what the stack answers during one handler: to the default install and to
\* the request on each connection that can be sent one
Oracles ==
    [dflt : DefaultsErrs,
     req : {f \in [ConnIds -> RequestErrs] :
              \A c \in ConnIds :
                  ~(/\ conns[c].role = BT_CONN_ROLE_CENTRAL
                    /\ conns[c].state = BT_CONN_STATE_CONNECTED) => f[c] = "0"}]

ZMK_ACTIVITY_ACTIVE == "ZMK_ACTIVITY_ACTIVE"
ZMK_ACTIVITY_IDLE == "ZMK_ACTIVITY_IDLE"
ZMK_ACTIVITY_SLEEP == "ZMK_ACTIVITY_SLEEP"

ActivityValues ==
    {ZMK_ACTIVITY_ACTIVE, ZMK_ACTIVITY_IDLE, ZMK_ACTIVITY_SLEEP, "OUT_OF_RANGE"}

\* events the event manager can hand to the listener
Events ==
    [type : {"zmk_activity_state_changed"}, state : ActivityValues]
        \cup {[type |-> "other_event", state |-> "OUT_OF_RANGE"]}

BT_HCI_ERR_SUCCESS == "BT_HCI_ERR_SUCCESS"

HciStatuses == {BT_HCI_ERR_SUCCESS, "BT_HCI_ERR_UNSUPP_REMOTE_FEATURE"}

-----------------------------------------------------------------------------
(* The trace of outbound calls *)

Call(name, conn, params, res) ==
    [call |-> name, conn |-> conn, params |-> params, res |-> res]

Emit(st, c) == [st EXCEPT !.calls = Append(@, c)]

\* the controller state as the handlers see it
Cur ==
    [tier |-> current_tier, work |-> work_state, left |-> timer_left,
     dflt |-> stack_default, calls |-> <<>>]

(* Kernel work-queue API on dormant_work. The work is idle, delayed (its   *)
(* timeout running), queued (its fire pending), running (its handler in    *)
(* flight) or canceling (in flight, with a cancel waiting for its end).    *)

\* variant: cancels the queued item but leaves a running timeout (k_work_cancel)
k_work_cancel_queued_only(st) ==
    IF st.work = "queued"
    THEN Emit([st EXCEPT !.work = "idle", !.left = 0],
              Call("k_work_cancel_delayable", 0, NoParams, st.work))
    ELSE Emit(st, Call("k_work_cancel_delayable", 0, NoParams, st.work))

\* a handler in flight is not preempted: the cancel is recorded and the work
\* stays busy until the handler returns
k_work_cancel_delayable(st) ==
    IF st.work \in {"running", "canceling"}
    THEN Emit([st EXCEPT !.work = "canceling"],
              Call("k_work_cancel_delayable", 0, NoParams, st.work))
    ELSE Emit([st EXCEPT !.work = "idle", !.left = 0],
              Call("k_work_cancel_delayable", 0, NoParams, st.work))

\* variant: the work is submitted at once (K_NO_WAIT)
k_work_schedule_no_wait(st, delay) ==
    IF st.work = "idle"
    THEN Emit([st EXCEPT !.work = "queued", !.left = 0],
              Call("k_work_schedule", 0, NoParams, "scheduled"))
    ELSE Emit(st, Call("k_work_schedule", 0, NoParams, "already"))

\* a work item that is being cancelled is refused (-EBUSY)
k_work_schedule(st, delay) ==
    CASE st.work = "idle" ->
            Emit([st EXCEPT !.work = "delayed", !.left = delay],
                 Call("k_work_schedule", 0, NoParams, "scheduled"))
      [] st.work = "canceling" ->
            Emit(st, Call("k_work_schedule", 0, NoParams, "-EBUSY"))
      [] OTHER -> Emit(st, Call("k_work_schedule", 0, NoParams, "already"))

(* Stack API *)

bt_conn_le_subrate_set_defaults(st, params, err) ==
    Emit([st EXCEPT !.dflt = IF err = "0" THEN params ELSE @],
         Call("bt_conn_le_subrate_set_defaults", 0, params, err))

bt_conn_le_subrate_request(st, conn, params, err) ==
    Emit(st, Call("bt_conn_le_subrate_request", conn, params, err))

LOG(st, level, msg) == Emit(st, Call(level, 0, NoParams, msg))

-----------------------------------------------------------------------------
(* The controller *)

\* variant: a failed request is issued once more
apply_subrate_retry(st, conn, params, err) ==
    LET info == conns[conn] IN
    IF info.role = BT_CONN_ROLE_CENTRAL /\ info.state = BT_CONN_STATE_CONNECTED
    THEN LET s1 == bt_conn_le_subrate_request(st, conn, params, err) IN
         IF err # "0" /\ err # "-EALREADY"
         THEN bt_conn_le_subrate_request(
                  LOG(s1, "LOG_WRN", "Failed to request subrate"),
                  conn, params, err)
         ELSE s1
    ELSE st

\* variant: the request goes to every connected link, whatever its role
apply_subrate_any_role(st, conn, params, err) ==
    LET info == conns[conn] IN
    IF info.state = BT_CONN_STATE_CONNECTED
    THEN LET s1 == bt_conn_le_subrate_request(st, conn, params, err) IN
         IF err # "0" /\ err # "-EALREADY"
         THEN LOG(s1, "LOG_WRN", "Failed to request subrate")
         ELSE s1
    ELSE st

apply_subrate_to_conn(st, conn, params, err) ==
    LET info == conns[conn] IN
    IF info.role = BT_CONN_ROLE_CENTRAL /\ info.state = BT_CONN_STATE_CONNECTED
    THEN LET s1 == bt_conn_le_subrate_request(st, conn, params, err) IN
         IF err # "0" /\ err # "-EALREADY"
         THEN LOG(s1, "LOG_WRN", "Failed to request subrate")
         ELSE s1
    ELSE st

\* bt_conn_foreach(BT_CONN_TYPE_LE, apply_subrate_to_conn, params)
RECURSIVE bt_conn_foreach(_, _, _, _)

\* variant: the walk stops at the first request the stack refuses
RECURSIVE bt_conn_foreach_abort(_, _, _, _)
bt_conn_foreach_abort(st, from, params, errs) ==
    IF from > MaxConns
    THEN st
    ELSE LET s1 == IF conns[from] = FreeConn
                   THEN st
                   ELSE apply_subrate_to_conn(st, from, params, errs[from])
         IN  IF s1 # st /\ errs[from] \notin {"0", "-EALREADY"}
             THEN s1
             ELSE bt_conn_foreach_abort(s1, from + 1, params, errs)

bt_conn_foreach(st, from, params, errs) ==
    IF from > MaxConns
    THEN st
    ELSE bt_conn_foreach(
             IF conns[from] = FreeConn
             THEN st
             ELSE apply_subrate_to_conn(st, from, params, errs[from]),
             from + 1, params, errs)

\* variant: the links are sent their requests but no default is installed
set_tier_no_install(st, tier, o) ==
    IF tier = st.tier
    THEN st
    ELSE LET s1 == [st EXCEPT !.tier = tier]
             params == TierParams(cfg, tier)
             s2 == LOG(s1, "LOG_INF", "Subrating tier")
         IN  bt_conn_foreach(s2, 1, params, o.req)

\* variant: the links are sent their requests before the default is installed
set_tier_requests_first(st, tier, o) ==
    IF tier = st.tier
    THEN st
    ELSE LET s1 == [st EXCEPT !.tier = tier]
             params == TierParams(cfg, tier)
             s2 == LOG(s1, "LOG_INF", "Subrating tier")
             s3 == bt_conn_foreach(s2, 1, params, o.req)
         IN  bt_conn_le_subrate_set_defaults(s3, params, o.dflt)

\* variant: no early return when the tier is already the current one
set_tier_always(st, tier, o) ==
    LET s1 == [st EXCEPT !.tier = tier]
        params == TierParams(cfg, tier)
        s2 == LOG(s1, "LOG_INF", "Subrating tier")
        s3 == bt_conn_le_subrate_set_defaults(s2, params, o.dflt)
    IN  bt_conn_foreach(s3, 1, params, o.req)

set_tier(st, tier, o) ==
    IF tier = st.tier
    THEN st
    ELSE LET s1 == [st EXCEPT !.tier = tier]
             params == TierParams(cfg, tier)
             s2 == LOG(s1, "LOG_INF", "Subrating tier")
             s3 == bt_conn_le_subrate_set_defaults(s2, params, o.dflt)
         IN  bt_conn_foreach(s3, 1, params, o.req)

dormant_timer_handler(st, o) == set_tier(st, TIER_DORMANT, o)

\* variant: the ACTIVE path without the cancel
subrate_active_no_cancel(st, o) == set_tier(st, TIER_ACTIVE, o)

subrate_active(st, o) ==
    set_tier(k_work_cancel_delayable(st), TIER_ACTIVE, o)

\* variant: the IDLE path that arms the timer without cancelling it first
subrate_idle_no_cancel(st, o) ==
    k_work_schedule(set_tier(st, TIER_IDLE, o), DormantDelay)

\* variant: the IDLE path that never arms the timer
subrate_idle_no_schedule(st, o) ==
    set_tier(k_work_cancel_delayable(st), TIER_IDLE, o)

subrate_idle(st, o) ==
    k_work_schedule(set_tier(k_work_cancel_delayable(st), TIER_IDLE, o),
                    DormantDelay)

\* the null pointer as_zmk_activity_state_changed returns for another event type
NULL == [type |-> "NULL", state |-> "NULL"]

as_zmk_activity_state_changed(eh) ==
    IF eh.type = "zmk_activity_state_changed" THEN eh ELSE NULL

\* variant: an unknown activity value falls into the idle case
subrating_activity_listener_fallthrough(st, eh, o) ==
    LET ev == as_zmk_activity_state_changed(eh) IN
    IF ev = NULL
    THEN [st |-> st, ret |-> "-ENOTSUP"]
    ELSE IF ev.state = ZMK_ACTIVITY_ACTIVE
         THEN [st |-> subrate_active(st, o), ret |-> "0"]
         ELSE [st |-> subrate_idle(st, o), ret |-> "0"]

subrating_activity_listener(st, eh, o) ==
    LET ev == as_zmk_activity_state_changed(eh) IN
    IF ev = NULL
    THEN [st |-> st, ret |-> "-ENOTSUP"]
    ELSE CASE ev.state = ZMK_ACTIVITY_ACTIVE ->
                [st |-> subrate_active(st, o), ret |-> "0"]
           [] ev.state \in {ZMK_ACTIVITY_IDLE, ZMK_ACTIVITY_SLEEP} ->
                [st |-> subrate_idle(st, o), ret |-> "0"]
           [] OTHER ->
                [st |-> LOG(st, "LOG_WRN", "Unhandled activity state"),
                 ret |-> "-EINVAL"]

zmk_sdc_subrating_init(st, err) ==
    LET s1 == bt_conn_le_subrate_set_defaults(st, idle_params(cfg), err) IN
    IF err # "0"
    THEN [st |-> LOG(s1, "LOG_ERR", "Failed to set subrating defaults"),
          ret |-> err]
    ELSE [st |-> LOG(s1, "LOG_INF", "Subrating"), ret |-> "0"]

\* variant: a reported failure is answered by asking again
subrate_changed_cb_retry(st, conn, status) ==
    IF status = BT_HCI_ERR_SUCCESS
    THEN LOG(st, "LOG_INF", "Subrating")
    ELSE bt_conn_le_subrate_request(LOG(st, "LOG_WRN", "Subrating failed"),
                                    conn, TierParams(cfg, st.tier), "0")

subrate_changed_cb(st, conn, status) ==
    IF status = BT_HCI_ERR_SUCCESS
    THEN LOG(st, "LOG_INF", "Subrating")
    ELSE LOG(st, "LOG_WRN", "Subrating failed")

(* The earlier two-tier variant's per-connection callbacks *)

set_active_subrate(st, conn, err) ==
    LET info == conns[conn] IN
    IF info.role = BT_CONN_ROLE_CENTRAL /\ info.state = BT_CONN_STATE_CONNECTED
    THEN LET s1 == bt_conn_le_subrate_request(st, conn, active_params(cfg), err) IN
         IF err # "0" /\ err # "-EALREADY"
         THEN LOG(s1, "LOG_WRN", "Failed to request active subrate")
         ELSE s1
    ELSE st

set_idle_subrate(st, conn, err) ==
    LET info == conns[conn] IN
    IF info.role = BT_CONN_ROLE_CENTRAL /\ info.state = BT_CONN_STATE_CONNECTED
    THEN LET s1 == bt_conn_le_subrate_request(st, conn, idle_params(cfg), err) IN
         IF err # "0" /\ err # "-EALREADY"
         THEN LOG(s1, "LOG_WRN", "Failed to request idle subrate")
         ELSE s1
    ELSE st

-----------------------------------------------------------------------------
(* State machine *)

\* the controller state a handler starts from
Snapshot ==
    [tier |-> current_tier, work |-> work_state, left |-> timer_left,
     dflt |-> stack_default, first |-> (last_activity = "none")]

NoSnapshot ==
    [tier |-> TIER_IDLE, work |-> "idle", left |-> 0, dflt |-> NoParams,
     first |-> TRUE]

NoEvent == [type |-> "none", state |-> "none"]

\* a handler ran
Step(op, ev, conn, ret) ==
    [op |-> op, ev |-> ev, conn |-> conn, ret |-> ret, prev |-> Snapshot]

\* the environment moved
EnvStep(op) ==
    [op |-> op, ev |-> NoEvent, conn |-> 0, ret |-> "0", prev |-> NoSnapshot]

\* the tier whose parameter set is p
TierOfParams(p) == CHOOSE t \in subrate_tier : TierParams(cfg, t) = p

\* the tiers of the default installs of a call trace, in order
RECURSIVE BroadcastTiers(_)
BroadcastTiers(cs) ==
    IF cs = <<>>
    THEN <<>>
    ELSE (IF Head(cs).call = "bt_conn_le_subrate_set_defaults"
          THEN <<TierOfParams(Head(cs).params)>>
          ELSE <<>>) \o BroadcastTiers(Tail(cs))

\* what a handler's call trace adds to the history of broadcasts
Observe(st) ==
    last_bcast' = LET b == BroadcastTiers(st.calls) IN
                  IF b = <<>> THEN last_bcast ELSE b[Len(b)]

\* the run: start, ACTIVE event, IDLE event, delay elapsed (timer fires)
ScenarioStart == [pos |-> 0, bcasts |-> <<>>]
ScenarioOff == [pos |-> 0 - 1, bcasts |-> <<>>]

\* a tier-affecting step: the next expected one advances the run, any other
\* one leaves it
ScenarioAfter(step, cs) ==
    LET expected ==
            CASE scenario.pos = 0 -> ZMK_ACTIVITY_ACTIVE
              [] scenario.pos = 1 -> ZMK_ACTIVITY_IDLE
              [] scenario.pos = 2 -> "dormant_timer_handler"
              [] OTHER -> "nothing"
    IN  IF step = expected
        THEN [pos |-> scenario.pos + 1,
              bcasts |-> scenario.bcasts \o BroadcastTiers(cs)]
        ELSE ScenarioOff

NoThreads ==
    [T |-> [pc |-> "idle", ev |-> "none"], L |-> [pc |-> "idle", ev |-> "none"]]

\* write a handler's resulting state back
Commit(st) ==
    /\ current_tier' = st.tier
    /\ work_state' = st.work
    /\ timer_left' = st.left
    /\ stack_default' = st.dflt
    /\ calls' = st.calls

InitController ==
    /\ current_tier = TIER_IDLE
    /\ work_state = "idle"
    /\ timer_left = 0
    /\ stack_default = NoParams
    /\ conns = [c \in ConnIds |-> FreeConn]
    /\ last = EnvStep("none")
    /\ calls = <<>>
    /\ last_activity = "none"
    /\ since_event = 0
    /\ last_bcast = "none"
    /\ scenario = ScenarioStart
    /\ thr = NoThreads
    /\ failed = {}

Init ==
    /\ cfg = RunCfg
    /\ BuildAsserts(cfg)
    /\ phase = "boot"
    /\ InitController

\* SYS_INIT(zmk_sdc_subrating_init, APPLICATION, ...), the stack answering
\* the install with one of errs
SysInitWith(errs) ==
    /\ phase = "boot"
    /\ \E err \in errs :
         LET r == zmk_sdc_subrating_init(Cur, err) IN
         /\ Commit(r.st)
         /\ last' = Step("zmk_sdc_subrating_init", NoEvent, 0, r.ret)
    /\ phase' = "run"
    /\ UNCHANGED <<cfg, conns, last_activity, since_event, last_bcast,
                   scenario, thr, failed>>

SysInit == SysInitWith(DefaultsErrs)

\* the event manager calls the listener, the stack answering with one of os
ListenerWith(os) ==
    /\ phase = "run"
    /\ \E eh \in Events :
       \E r \in {subrating_activity_listener(Cur, eh, o) : o \in os} :
         /\ Commit(r.st)
         /\ last' = Step("subrating_activity_listener", eh, 0, r.ret)
         /\ last_activity' = IF r.ret = "0" THEN eh.state ELSE last_activity
         /\ since_event' = IF r.ret = "0" THEN 0 ELSE since_event
         /\ Observe(r.st)
    /\ UNCHANGED <<cfg, phase, conns, thr>>

Listener == ListenerWith(Oracles) /\ UNCHANGED <<scenario, failed>>

\* the work queue runs the expired dormant_work, the stack answering with one
\* of os
DormantTimerFireWith(os) ==
    /\ phase = "run"
    /\ work_state = "queued"
    /\ \E st \in {dormant_timer_handler([Cur EXCEPT !.work = "idle"], o) :
                      o \in os} :
         /\ Commit(st)
         /\ Observe(st)
    /\ last' = Step("dormant_timer_handler", NoEvent, 0, "0")
    /\ UNCHANGED <<cfg, phase, conns, last_activity, since_event, thr>>

DormantTimerFire ==
    DormantTimerFireWith(Oracles) /\ UNCHANGED <<scenario, failed>>

\* the stack reports the outcome of a subrate procedure
SubrateChangedStep ==
    /\ phase = "run"
    /\ \E conn \in ConnIds, status \in HciStatuses :
         /\ conns[conn] # FreeConn
         /\ LET st == subrate_changed_cb(Cur, conn, status) IN
            Commit(st) /\ Observe(st)
         /\ last' = Step("subrate_changed_cb",
                         [type |-> "subrate_changed", state |-> status], conn, "0")
    /\ UNCHANGED <<cfg, phase, conns, last_activity, since_event, scenario, thr>>

SubrateChanged == SubrateChangedStep /\ UNCHANGED failed

\* one tick of time; a delayed work item whose delay ends is queued
Tick ==
    /\ phase = "run"
    /\ IF work_state = "delayed"
       THEN /\ timer_left' = timer_left - 1
            /\ work_state' = IF timer_left = 1 THEN "queued" ELSE "delayed"
       ELSE UNCHANGED <<work_state, timer_left>>
    /\ since_event' =
           IF /\ last_activity \in {ZMK_ACTIVITY_IDLE, ZMK_ACTIVITY_SLEEP}
              /\ since_event < DormantDelay
           THEN since_event + 1
           ELSE since_event
    /\ last' = EnvStep("tick")
    /\ calls' = <<>>
    /\ UNCHANGED <<cfg, phase, current_tier, stack_default, conns, last_activity,
                   last_bcast, scenario, thr, failed>>

\* the life of a connection object: taken in either role, connected,
\* disconnected, released
ConnSuccessors(v) ==
    CASE v = FreeConn -> [role : ConnRoles, state : {"disconnected"}]
      [] v.state = "disconnected" ->
            {FreeConn, [v EXCEPT !.state = BT_CONN_STATE_CONNECTED]}
      [] OTHER -> {[v EXCEPT !.state = "disconnected"]}

\* a connection object is created, changes state or is released
ConnUpdate ==
    /\ phase = "run"
    /\ \E conn \in ConnIds :
       \E v \in ConnSuccessors(conns[conn]) :
         /\ conns' = [conns EXCEPT ![conn] = v]
         /\ last' = EnvStep("conn_update")
         /\ failed' = failed \ {conn}
    /\ calls' = <<>>
    /\ UNCHANGED <<cfg, phase, current_tier, work_state, timer_left,
                   stack_default, last_activity, since_event, last_bcast,
                   scenario, thr>>

Next ==
    \/ SysInit
    \/ Listener
    \/ DormantTimerFire
    \/ SubrateChanged
    \/ Tick
    \/ ConnUpdate

Spec == Init /\ [][Next]_vars

\* the work queue runs every queued work item and time goes on
FairSpec == Spec /\ WF_vars(Tick) /\ WF_vars(DormantTimerFire)

(* The controller on a stack that accepts every default install *)

AcceptingOracles == {o \in Oracles : o.dflt = "0"}

SysInitAccepted == SysInitWith({"0"})
ListenerAccepted ==
    ListenerWith(AcceptingOracles) /\ UNCHANGED <<scenario, failed>>
DormantTimerFireAccepted ==
    DormantTimerFireWith(AcceptingOracles) /\ UNCHANGED <<scenario, failed>>

NextAccepted ==
    \/ SysInitAccepted
    \/ ListenerAccepted
    \/ DormantTimerFireAccepted
    \/ SubrateChanged
    \/ Tick
    \/ ConnUpdate

SpecAccepted == Init /\ [][NextAccepted]_vars

(* The controller with the handled events and timer fires since start logged *)

ListenerLogged ==
    /\ ListenerWith(Oracles)
    /\ scenario' = IF last'.ret = "0"
                   THEN ScenarioAfter(last'.ev.state, calls')
                   ELSE scenario
    /\ UNCHANGED failed

DormantTimerFireLogged ==
    /\ DormantTimerFireWith(Oracles)
    /\ scenario' = ScenarioAfter("dormant_timer_handler", calls')
    /\ UNCHANGED failed

NextLogged ==
    \/ SysInit
    \/ ListenerLogged
    \/ DormantTimerFireLogged
    \/ SubrateChanged
    \/ Tick
    \/ ConnUpdate

SpecLogged == Init /\ [][NextLogged]_vars

(* The controller with the failures of the current tier's requests tracked *)

\* links whose bt_conn_le_subrate_request of the step returned an error that
\* apply_subrate_to_conn logs
FailedRequests(cs) ==
    {cs[i].conn : i \in {j \in DOMAIN cs :
                            /\ cs[j].call = "bt_conn_le_subrate_request"
                            /\ cs[j].res \notin {"0", "-EALREADY"}}}

\* a step that changes current_tier starts the record anew; reported is the
\* central connected link the stack reports a failed procedure for, if any
FailedAfter(reported) ==
    IF current_tier' # current_tier
    THEN FailedRequests(calls')
    ELSE failed \cup FailedRequests(calls') \cup reported

ListenerTracked ==
    /\ ListenerWith(Oracles)
    /\ failed' = FailedAfter({})
    /\ UNCHANGED scenario

DormantTimerFireTracked ==
    /\ DormantTimerFireWith(Oracles)
    /\ failed' = FailedAfter({})
    /\ UNCHANGED scenario

SubrateChangedTracked ==
    /\ SubrateChangedStep
    /\ failed' =
          FailedAfter(IF /\ last'.ev.state # BT_HCI_ERR_SUCCESS
                         /\ conns[last'.conn].role = BT_CONN_ROLE_CENTRAL
                         /\ conns[last'.conn].state = BT_CONN_STATE_CONNECTED
                      THEN {last'.conn}
                      ELSE {})

NextTracked ==
    \/ SysInit
    \/ ListenerTracked
    \/ DormantTimerFireTracked
    \/ SubrateChangedTracked
    \/ Tick
    \/ ConnUpdate

SpecTracked == Init /\ [][NextTracked]_vars

(* The timer handler on the work queue thread (T) and the listener on the  *)
(* thread that raises the event (L), statement by statement: subrating.c  *)
(* takes no lock and reads no result of k_work_cancel_delayable or        *)
(* k_work_schedule. The stack accepts every call here.                   *)

\* the timer expired after an idle period: the fire is pending
InitConc ==
    /\ cfg = RunCfg
    /\ phase = "run"
    /\ current_tier = TIER_IDLE
    /\ work_state = "queued"
    /\ timer_left = 0
    /\ stack_default = idle_params(cfg)
    /\ conns \in [ConnIds -> ConnValues]
    /\ last = EnvStep("tick")
    /\ calls = <<>>
    /\ last_activity = ZMK_ACTIVITY_IDLE
    /\ since_event = DormantDelay
    /\ last_bcast = "none"
    /\ scenario = ScenarioOff
    /\ thr = NoThreads
    /\ failed = {}

\* one statement of a handler took effect; calls grows into the trace of both
ConcCommit(st) ==
    /\ current_tier' = st.tier
    /\ work_state' = st.work
    /\ timer_left' = st.left
    /\ stack_default' = st.dflt
    /\ calls' = calls \o st.calls
    /\ Observe(st)

Goto(th, pc) == thr' = [thr EXCEPT ![th].pc = pc]

\* the stack's answers when it accepts the install and every request
StackAccepts == [dflt |-> "0", req |-> [c \in ConnIds |-> "0"]]

\* set_tier(tier) on thread th, one statement at a time, then on to after
SetTierStep(th, tier, after) ==
    CASE thr[th].pc = "check" ->
            /\ ConcCommit(Cur)
            /\ Goto(th, IF tier = current_tier THEN after ELSE "write")
      [] thr[th].pc = "write" ->
            /\ ConcCommit(LOG([Cur EXCEPT !.tier = tier], "LOG_INF",
                               "Subrating tier"))
            /\ Goto(th, "install")
      [] thr[th].pc = "install" ->
            /\ ConcCommit(bt_conn_le_subrate_set_defaults(
                              Cur, TierParams(cfg, tier), StackAccepts.dflt))
            /\ Goto(th, "foreach")
      [] thr[th].pc = "foreach" ->
            /\ ConcCommit(bt_conn_foreach(Cur, 1, TierParams(cfg, tier),
                                          StackAccepts.req))
            /\ Goto(th, after)

SetTierPcs == {"check", "write", "install", "foreach"}

\* the work queue takes the pending dormant_work and calls its handler
TimerStart ==
    /\ thr.T.pc = "idle"
    /\ work_state = "queued"
    /\ ConcCommit([Cur EXCEPT !.work = "running"])
    /\ Goto("T", "check")
    /\ UNCHANGED <<cfg, phase, conns, last, last_activity, since_event,
                   scenario, failed>>

\* dormant_timer_handler; when it returns the work is no longer busy
TimerStep ==
    /\ \/ /\ thr.T.pc \in SetTierPcs
          /\ SetTierStep("T", TIER_DORMANT, "return")
       \/ /\ thr.T.pc = "return"
          /\ ConcCommit([Cur EXCEPT !.work =
                             IF @ \in {"running", "canceling"} THEN "idle" ELSE @])
          /\ Goto("T", "done")
    /\ UNCHANGED <<cfg, phase, conns, last, last_activity, since_event,
                   scenario, failed>>

\* the event manager calls the listener with an activity event
EventArrives ==
    /\ thr.L.pc = "idle"
    /\ \E a \in {ZMK_ACTIVITY_ACTIVE, ZMK_ACTIVITY_IDLE, ZMK_ACTIVITY_SLEEP} :
         thr' = [thr EXCEPT !.L = [pc |-> "cancel", ev |-> a]]
    /\ UNCHANGED <<cfg, phase, current_tier, work_state, timer_left,
                   stack_default, conns, last, calls, last_activity,
                   since_event, last_bcast, scenario, failed>>

\* subrate_active / subrate_idle as called by subrating_activity_listener
ListenerStep ==
    /\ \/ /\ thr.L.pc = "cancel"
          /\ ConcCommit(k_work_cancel_delayable(Cur))
          /\ Goto("L", "check")
       \/ /\ thr.L.pc \in SetTierPcs
          /\ SetTierStep("L",
                         IF thr.L.ev = ZMK_ACTIVITY_ACTIVE
                         THEN TIER_ACTIVE ELSE TIER_IDLE,
                         IF thr.L.ev = ZMK_ACTIVITY_ACTIVE
                         THEN "done" ELSE "schedule")
       \/ /\ thr.L.pc = "schedule"
          /\ ConcCommit(k_work_schedule(Cur, DormantDelay))
          /\ Goto("L", "done")
    /\ UNCHANGED <<cfg, phase, conns, last, last_activity, since_event,
                   scenario, failed>>

NextConc ==
    \/ TimerStart
    \/ TimerStep
    \/ EventArrives
    \/ ListenerStep

SpecConc == InitConc /\ [][NextConc]_vars

(* The build: every configuration against the build assertions *)

InitBuild ==
    /\ cfg \in ConfigSpace
    /\ phase = "build"
    /\ InitController

Build ==
    /\ phase = "build"
    /\ phase' = IF BuildAsserts(cfg) THEN "boot" ELSE "rejected"
    /\ last' = EnvStep("build")
    /\ UNCHANGED <<cfg, current_tier, work_state, timer_left, stack_default,
                   conns, calls, last_activity, since_event, last_bcast,
                   scenario, thr, failed>>

NextBuild == Build

SpecBuild == InitBuild /\ [][NextBuild]_vars

-----------------------------------------------------------------------------
(* Reading the last step and its call trace *)

ActivityEvent(a) == [type |-> "zmk_activity_state_changed", state |-> a]

JustListener(a) ==
    /\ last.op = "subrating_activity_listener"
    /\ last.ev = ActivityEvent(a)

JustIdleEvent == JustListener(ZMK_ACTIVITY_IDLE) \/ JustListener(ZMK_ACTIVITY_SLEEP)

CallIdx(name) == {i \in DOMAIN calls : calls[i].call = name}

InstallIdx == CallIdx("bt_conn_le_subrate_set_defaults")
RequestIdx == CallIdx("bt_conn_le_subrate_request")
RequestIdxOf(c) == {i \in RequestIdx : calls[i].conn = c}

\* calls that reach the stack or the work queue (everything but logging)
EffectIdx ==
    InstallIdx \cup RequestIdx \cup CallIdx("k_work_cancel_delayable")
        \cup CallIdx("k_work_schedule")

NoBroadcast == InstallIdx = {} /\ RequestIdx = {}

Eligible(c) ==
    /\ conns[c].role = BT_CONN_ROLE_CENTRAL
    /\ conns[c].state = BT_CONN_STATE_CONNECTED

ControllerUnchanged ==
    /\ current_tier = last.prev.tier
    /\ work_state = last.prev.work
    /\ timer_left = last.prev.left
    /\ stack_default = last.prev.dflt

\* the last step was a handler that called set_tier(t)
JustSetTier(t) ==
    \/ t = TIER_ACTIVE /\ JustListener(ZMK_ACTIVITY_ACTIVE)
    \/ t = TIER_IDLE /\ JustIdleEvent
    \/ t = TIER_DORMANT /\ last.op = "dormant_timer_handler"

-----------------------------------------------------------------------------
(* C1: once the listener has handled an ACTIVE event, whatever the tier and *)
(* the timer were before, current_tier is ACTIVE and the dormant timer is   *)
(* unarmed.                                                                 *)
C1_ActiveEvent ==
    JustListener(ZMK_ACTIVITY_ACTIVE) =>
        /\ last.ret = "0"
        /\ current_tier = TIER_ACTIVE
        /\ work_state = "idle"
        /\ timer_left = 0

\* an ACTIVE event handled while the tier was IDLE and the timer was armed
C1_Witness ==
    /\ JustListener(ZMK_ACTIVITY_ACTIVE)
    /\ last.prev.tier = TIER_IDLE
    /\ last.prev.work = "delayed"
    /\ current_tier = TIER_ACTIVE

(* C2: from an ACTIVE event until the next IDLE/SLEEP event the dormant    *)
(* timer armed earlier never fires: the timer stays unarmed, the handler   *)
(* of the timer does not run, current_tier is not DORMANT and no call      *)
(* carries the DORMANT parameters.                                         *)
C2_IdleDebounce ==
    last_activity = ZMK_ACTIVITY_ACTIVE =>
        /\ work_state = "idle"
        /\ last.op # "dormant_timer_handler"
        /\ current_tier # TIER_DORMANT
        /\ \A i \in InstallIdx \cup RequestIdx :
               calls[i].params # dormant_params(cfg)

\* an ACTIVE event that cancelled the timer in the middle of its delay
C2_Witness ==
    /\ JustListener(ZMK_ACTIVITY_ACTIVE)
    /\ last.prev.work = "delayed"
    /\ last.prev.left >= 1
    /\ last.prev.left < DormantDelay
    /\ calls[1] = Call("k_work_cancel_delayable", 0, NoParams, "delayed")
    /\ work_state = "idle"

IdlePeriod == last_activity \in {ZMK_ACTIVITY_IDLE, ZMK_ACTIVITY_SLEEP}

JustActivityEvent ==
    /\ last.op = "subrating_activity_listener"
    /\ last.ret = "0"

Dormant == current_tier = TIER_DORMANT /\ work_state = "idle"


(* C3: after an IDLE or SLEEP event, with time going on and the work queue *)
(* running, either a further activity event is handled or the dormant      *)
(* timer fires and current_tier becomes DORMANT with the timer unarmed;    *)
(* and DORMANT with the timer unarmed is left only by an activity event.   *)
C3_DormantEscalation ==
    /\ (IdlePeriod /\ ~JustActivityEvent) ~> (Dormant \/ JustActivityEvent)
    /\ [][(Dormant /\ ~JustActivityEvent') => Dormant']_vars

\* the timer fired a full delay after a SLEEP event and made the tier DORMANT
C3_Witness ==
    /\ last.op = "dormant_timer_handler"
    /\ last.prev.tier = TIER_IDLE
    /\ last_activity = ZMK_ACTIVITY_SLEEP
    /\ since_event = DormantDelay
    /\ Dormant

(* C4: set_tier(t) called while current_tier is t changes nothing and      *)
(* calls neither the default install nor any request; called while the     *)
(* tier is another one it installs the default once, so that two calls in  *)
(* a row with the same tier make one broadcast. An IDLE (or SLEEP) event   *)
(* that is the first activity event after startup makes no broadcast.      *)
C4_SetTierIdempotent ==
    /\ \A t \in subrate_tier :
         JustSetTier(t) =>
             /\ current_tier = t
             /\ last.prev.tier = t =>
                    NoBroadcast /\ stack_default = last.prev.dflt
             /\ last.prev.tier # t => Cardinality(InstallIdx) = 1
    /\ (JustIdleEvent /\ last.prev.first) => NoBroadcast
    /\ \A t \in subrate_tier, o \in Oracles :
         LET once == set_tier(Cur, t, o) IN
         /\ set_tier(once, t, o) = once
         /\ once.tier = t

\* a second ACTIVE event in a row, with a link that a broadcast would reach
C4_Witness ==
    /\ JustListener(ZMK_ACTIVITY_ACTIVE)
    /\ last.prev.tier = TIER_ACTIVE
    /\ \E c \in ConnIds : Eligible(c)
    /\ NoBroadcast

(* C5: IDLE and SLEEP events are handled alike, and once the listener has  *)
(* handled one, whatever the tier and the timer were before, current_tier  *)
(* is IDLE and the dormant timer is armed to expire DormantDelay after the *)
(* event.                                                                  *)
C5_IdleEvent ==
    /\ JustIdleEvent =>
         /\ last.ret = "0"
         /\ current_tier = TIER_IDLE
         /\ work_state = "delayed"
         /\ timer_left = DormantDelay
    /\ (IdlePeriod /\ since_event < DormantDelay) =>
         /\ work_state = "delayed"
         /\ timer_left = DormantDelay - since_event
    /\ \A o \in Oracles :
         subrating_activity_listener(Cur, ActivityEvent(ZMK_ACTIVITY_SLEEP), o)
             = subrating_activity_listener(Cur, ActivityEvent(ZMK_ACTIVITY_IDLE), o)

\* a SLEEP event handled while the timer was already armed and part-way
C5_Witness ==
    /\ JustListener(ZMK_ACTIVITY_SLEEP)
    /\ last.prev.work = "delayed"
    /\ last.prev.left < DormantDelay
    /\ timer_left = DormantDelay

(* C6: every subrate request of a broadcast goes to a connection whose     *)
(* role is central and whose state is connected; the per-connection        *)
(* callbacks of the two-tier variant request nothing on any other link.    *)
C6_BroadcastScope ==
    /\ \A i \in RequestIdx : Eligible(calls[i].conn)
    /\ \A c \in ConnIds, e \in RequestErrs :
         ~Eligible(c) =>
             /\ set_active_subrate(Cur, c, e) = Cur
             /\ set_idle_subrate(Cur, c, e) = Cur

\* a broadcast that reached a central link and passed over a connected
\* peripheral link
C6_Witness ==
    /\ RequestIdx # {}
    /\ \E c \in ConnIds :
         /\ conns[c] = [role |-> BT_CONN_ROLE_PERIPHERAL,
                        state |-> BT_CONN_STATE_CONNECTED]
         /\ RequestIdxOf(c) = {}

UnsupportedEvent(eh) ==
    \/ eh.type # "zmk_activity_state_changed"
    \/ eh.state \notin {ZMK_ACTIVITY_ACTIVE, ZMK_ACTIVITY_IDLE, ZMK_ACTIVITY_SLEEP}


(* C7: an event that is no activity-state change, or whose activity value  *)
(* is none of ACTIVE, IDLE, SLEEP, makes the listener return an error      *)
(* code and leaves the tier, the timer and the stack default as they were, *)
(* with no cancel, no arming, no install and no request.                   *)
C7_UnsupportedEvent ==
    (last.op = "subrating_activity_listener" /\ UnsupportedEvent(last.ev)) =>
        /\ last.ret \in {"-ENOTSUP", "-EINVAL"}
        /\ ControllerUnchanged
        /\ EffectIdx = {}

\* an out-of-range activity value received while the timer was armed
C7_Witness ==
    /\ last.op = "subrating_activity_listener"
    /\ last.ev = ActivityEvent("OUT_OF_RANGE")
    /\ last.ret = "-EINVAL"
    /\ last.prev.work = "delayed"
    /\ work_state = "delayed"

RequestFailed == \E i \in RequestIdx : calls[i].res # "0"


C9_OutcomeObservational ==
    last.op = "subrate_changed_cb" =>
        /\ ControllerUnchanged
        /\ EffectIdx = {}

\* a failure reported for a central connected link while the timer was armed
C9_Witness ==
    /\ last.op = "subrate_changed_cb"
    /\ last.ev.state # BT_HCI_ERR_SUCCESS
    /\ Eligible(last.conn)
    /\ work_state = "delayed"
    /\ calls = <<Call("LOG_WRN", 0, NoParams, "Subrating failed")>>

TierValid(p) ==
    /\ p.subrate_max >= p.subrate_min
    /\ p.subrate_max * (p.max_latency + 1) <= 500
    /\ p.continuation_number < p.subrate_max
    /\ p.supervision_timeout * 2 > 3 * p.subrate_max * (p.max_latency + 1)

TableValid(c) ==
    /\ \A t \in subrate_tier : TierValid(TierParams(c, t))
    /\ TierParams(c, TIER_ACTIVE).max_latency = 0


(* C10: a configuration passes the build exactly when each of the three    *)
(* tiers of the table has subrate_max >= subrate_min,                      *)
(* subrate_max * (max_latency + 1) <= 500, continuation_number <           *)
(* subrate_max and supervision_timeout * 2 > 3 * subrate_max *             *)
(* (max_latency + 1), the ACTIVE tier with max_latency 0; any other        *)
(* configuration is rejected.                                              *)
C10_TierTableValid ==
    /\ phase \in {"boot", "run"} => TableValid(cfg)
    /\ phase = "rejected" => ~TableValid(cfg)

\* an accepted configuration whose dormant tier sits on the limit of 500
C10_Witness ==
    /\ phase = "boot"
    /\ last.op = "build"
    /\ dormant_params(cfg).subrate_max * (dormant_params(cfg).max_latency + 1) = 500
    /\ dormant_params(cfg).max_latency > 0

\* the last step was the listener or the timer handler
HandlerStep ==
    last.op \in {"subrating_activity_listener", "dormant_timer_handler"}

TierChanged == current_tier # last.prev.tier

\* what a handler step does to the stack: one install and one request per
\* eligible link, install first, all with the parameters of the tier reached,
\* when and only when the tier changed
BroadcastTracksTier ==
    /\ TierChanged <=> InstallIdx # {}
    /\ ~TierChanged => NoBroadcast
    /\ Cardinality(InstallIdx) <= 1
    /\ \A i \in InstallIdx \cup RequestIdx :
         calls[i].params = TierParams(cfg, current_tier)
    /\ \A i \in InstallIdx : \A j \in RequestIdx : i < j
    /\ TierChanged =>
         \A c \in ConnIds :
            Cardinality(RequestIdxOf(c)) = IF Eligible(c) THEN 1 ELSE 0

\* the broadcasts logged along IDLE (start), ACTIVE event, IDLE event, fire
ScenarioBroadcasts ==
    /\ scenario.pos = 1 => scenario.bcasts = <<TIER_ACTIVE>>
    /\ scenario.pos = 2 => scenario.bcasts = <<TIER_ACTIVE, TIER_IDLE>>
    /\ scenario.pos = 3 =>
         /\ scenario.bcasts = <<TIER_ACTIVE, TIER_IDLE, TIER_DORMANT>>
         /\ since_event = DormantDelay

\* a step that broadcasts does so for another tier than the broadcast before
NoRepeatedBroadcast ==
    \A i \in DOMAIN calls' :
       (/\ last'.op \in {"subrating_activity_listener", "dormant_timer_handler"}
        /\ calls'[i].call = "bt_conn_le_subrate_set_defaults")
       => TierOfParams(calls'[i].params) # last_bcast

(* C11: with events and timer fires handled one after the other, a handler *)
(* installs the default and sends the per-link requests exactly when it    *)
(* changes current_tier, with the parameters of the new tier and the       *)
(* install first; no broadcast repeats the tier of the broadcast before    *)
(* it; and from the start in IDLE, an ACTIVE event, an IDLE event and the  *)
(* timer firing after the delay broadcast ACTIVE, IDLE, DORMANT in order.  *)
C11_BroadcastsTrackTier ==
    /\ [](HandlerStep => BroadcastTracksTier)
    /\ [](last_bcast \in {"none", current_tier})
    /\ [](ScenarioBroadcasts)
    /\ [][NoRepeatedBroadcast]_vars

\* the scenario ran to its end and the DORMANT broadcast reached a link
C11_Witness ==
    /\ scenario.pos = 3
    /\ last.op = "dormant_timer_handler"
    /\ RequestIdx # {}

CancelIdx == CallIdx("k_work_cancel_delayable")
ScheduleIdx == CallIdx("k_work_schedule")

\* every k_work_schedule of the step follows a k_work_cancel_delayable of the
\* same step and so finds the work idle and arms it for the whole delay
ArmedAfterCancel ==
    \A i \in ScheduleIdx :
       /\ \E j \in CancelIdx : j < i
       /\ calls[i].res = "scheduled"
       /\ work_state = "delayed"
       /\ timer_left = DormantDelay

\* the one pending fire is the one of the most recent IDLE or SLEEP event
PendingFireIsLatest ==
    /\ work_state = "delayed" =>
         IdlePeriod /\ timer_left >= 1 /\ timer_left = DormantDelay - since_event
    /\ work_state = "queued" =>
         IdlePeriod /\ timer_left = 0 /\ since_event = DormantDelay

(* C12: dormant_work is armed only right after it was cancelled, so it is   *)
(* never armed twice and its one pending fire belongs to the most recent   *)
(* IDLE or SLEEP event; a cancel of the unarmed work changes nothing; and  *)
(* the timer handler runs only when the whole delay has passed since the   *)
(* most recent IDLE or SLEEP event, with no ACTIVE event after it.         *)
C12_SingleTimerRestart ==
    /\ ArmedAfterCancel
    /\ PendingFireIsLatest
    /\ (JustListener(ZMK_ACTIVITY_ACTIVE) /\ last.prev.work = "idle") =>
          (work_state = "idle" /\ timer_left = last.prev.left)
    /\ last.op = "dormant_timer_handler" =>
          (IdlePeriod /\ since_event = DormantDelay /\ work_state = "idle")

\* an IDLE event found the fire of an earlier IDLE or SLEEP event pending,
\* cancelled it and armed the timer anew
C12_Witness ==
    /\ JustListener(ZMK_ACTIVITY_IDLE)
    /\ last.prev.work = "queued"
    /\ \E j \in CancelIdx : \E i \in ScheduleIdx :
          j < i /\ calls[j].res = "queued" /\ calls[i].res = "scheduled"
    /\ work_state = "delayed"
    /\ since_event = 0

\* a step sends no request to a link whose request failed under the tier
\* still current
NoRetry ==
    \A i \in DOMAIN calls' :
       (/\ calls'[i].call = "bt_conn_le_subrate_request"
        /\ calls'[i].conn \in failed)
       => current_tier' # current_tier

(* C14: once a request to a link has failed, by its return value or by a   *)
(* reported outcome, no step sends that link a request again before        *)
(* current_tier changes; no handler sends a link two requests; and an      *)
(* event for the tier already in current_tier sends no request at all.     *)
C14_NoRetries ==
    /\ [][NoRetry]_vars
    /\ [](\A c \in ConnIds : Cardinality(RequestIdxOf(c)) <= 1)
    /\ [](last.op = "subrate_changed_cb" => RequestIdx = {})
    /\ []((HandlerStep /\ ~TierChanged) => RequestIdx = {})

\* an event for the current tier arrived while a link whose request had
\* failed was still connected, and the link was not sent another request
C14_Witness ==
    /\ JustActivityEvent
    /\ ~TierChanged
    /\ \E c \in failed : Eligible(c)
    /\ RequestIdx = {}

\* a step that takes current_tier into DORMANT is a run of the timer handler,
\* from IDLE, the whole delay after the most recent IDLE or SLEEP event and
\* with no ACTIVE event since
EntersDormant ==
    (current_tier' = TIER_DORMANT /\ current_tier # TIER_DORMANT) =>
        /\ last'.op = "dormant_timer_handler"
        /\ current_tier = TIER_IDLE
        /\ work_state = "queued"
        /\ IdlePeriod
        /\ since_event = DormantDelay

(* C15: current_tier becomes DORMANT only in a run of the timer handler,   *)
(* only from IDLE, and only when the whole delay has passed since the most *)
(* recent IDLE or SLEEP event with no activity event after it; a handled   *)
(* activity event never leaves current_tier in DORMANT.                    *)
C15_DormantOnlyByTimer ==
    /\ [][EntersDormant]_vars
    /\ [](JustActivityEvent => current_tier # TIER_DORMANT)
    /\ [](last.op = "dormant_timer_handler" =>
            (current_tier = TIER_DORMANT /\ last.prev.tier = TIER_IDLE))

\* the timer fired a whole delay after an IDLE event, took IDLE to DORMANT and
\* sent a link the dormant parameters
C15_Witness ==
    /\ last.op = "dormant_timer_handler"
    /\ last.prev.tier = TIER_IDLE
    /\ last.prev.work = "queued"
    /\ current_tier = TIER_DORMANT
    /\ last_activity = ZMK_ACTIVITY_IDLE
    /\ since_event = DormantDelay
    /\ \E i \in RequestIdx : calls[i].params = dormant_params(cfg)

(* C16: between handler runs, dormant_work is armed (its delay running or  *)
(* its fire pending) only while current_tier is IDLE; while current_tier   *)
(* is ACTIVE or DORMANT it is unarmed.                                     *)
C16_ArmedOnlyInIdle ==
    /\ work_state # "idle" => current_tier = TIER_IDLE
    /\ current_tier \in {TIER_ACTIVE, TIER_DORMANT} =>
         (work_state = "idle" /\ timer_left = 0)

\* an ACTIVE event arrived while the fire was pending and left the timer
\* unarmed
C16_Witness ==
    /\ JustListener(ZMK_ACTIVITY_ACTIVE)
    /\ last.prev.work = "queued"
    /\ last.prev.tier = TIER_IDLE
    /\ current_tier = TIER_ACTIVE
    /\ work_state = "idle"

(* C17: on a stack that accepts every default install, from the end of     *)
(* initialisation on and between handler runs, the stack-wide default is   *)
(* the parameter set of current_tier (idle_params with IDLE right after    *)
(* initialisation), so that is what a link established then starts with.   *)
C17_DefaultFollowsTier ==
    /\ phase = "run" => stack_default = TierParams(cfg, current_tier)
    /\ last.op = "zmk_sdc_subrating_init" =>
         (current_tier = TIER_IDLE /\ stack_default = idle_params(cfg))

\* a link was established as central while the tier was DORMANT and the
\* default it starts with is dormant_params
C17_Witness ==
    /\ last.op = "conn_update"
    /\ \E c \in ConnIds : Eligible(c)
    /\ current_tier = TIER_DORMANT
    /\ stack_default = dormant_params(cfg)
    /\ stack_default # idle_params(cfg)

\* the listener's cancel found the timer handler in flight
CancelFoundFireInFlight ==
    \E i \in CancelIdx : calls[i].res = "running"

BothHandlersDone == thr.T.pc = "done" /\ thr.L.pc = "done"

\* the last request each link was sent, if any, carried params
LastRequestsCarry(params) ==
    \A c \in ConnIds :
       \A i \in RequestIdxOf(c) :
          (\A j \in RequestIdxOf(c) : j <= i) => calls[i].params = params

\* the state after dormant_timer_handler and then the listener for event a
SerialOutcome(a) ==
    LET tier == IF a = ZMK_ACTIVITY_ACTIVE THEN TIER_ACTIVE ELSE TIER_IDLE IN
    /\ current_tier = tier
    /\ IF a = ZMK_ACTIVITY_ACTIVE
       THEN work_state = "idle"
       ELSE work_state = "delayed" /\ timer_left = DormantDelay
    /\ last_bcast = tier
    /\ LastRequestsCarry(TierParams(cfg, tier))

(* C13: when the listener's cancel finds the timer handler in flight, then *)
(* once both handlers have returned the tier, the timer and the last       *)
(* broadcast are those of the timer handler run wholly before the          *)
(* listener, whatever the interleaving of their statements: after an       *)
(* ACTIVE event current_tier is ACTIVE, the timer unarmed and the last     *)
(* broadcast ACTIVE.                                                       *)
C13_RaceFree ==
    (BothHandlersDone /\ CancelFoundFireInFlight) => SerialOutcome(thr.L.ev)

\* both handlers have returned after an ACTIVE event whose cancel found the
\* timer handler in flight, and the tier recorded is DORMANT with the
\* DORMANT broadcast the last one sent
C13_Witness ==
    /\ BothHandlersDone
    /\ CancelFoundFireInFlight
    /\ thr.L.ev = ZMK_ACTIVITY_ACTIVE
    /\ current_tier = TIER_DORMANT
    /\ last_bcast = TIER_DORMANT
    /\ \E c \in ConnIds : Eligible(c)

====
